---------------------------- MODULE Spec2Model ----------------------------
(***************************************************************************)
(* A model of src/hand_sign_recognizer.py (class HandSignRecognizer):      *)
(* the gesture store and its .pkl files, the command loop                  *)
(* (read_from_client), the frame loop (process_video), the classifier      *)
(* (recognize_gesture) and the smoother (smooth_gesture_prediction).       *)
(*                                                                         *)
(* Representation.                                                         *)
(*  - A Python str is a sequence of tokens, so that startswith, split,     *)
(*    replace, endswith and concatenation are computed, not assumed:       *)
(*    "RECORD:a.pkl" is <<"RECORD", ":", "a", ".pkl">>.                    *)
(*  - A float is an exact rational <<num, den>> in lowest terms, den > 0.  *)
(*    Rounding of IEEE doubles is not modelled.                            *)
(*  - A dict is a sequence of [name, data] entries in insertion order.     *)
(*  - The gestures directory is a function from file names to contents.    *)
(***************************************************************************)
EXTENDS Integers, Sequences, FiniteSets, TLC

VARIABLES
    phase,            \* "boot" | "constructed" | "serving" | "crashed"
    disk,             \* the gestures directory: file name -> file content
    gestures,         \* self.gestures
    client,           \* self.client: "none" | "conn"
    running,          \* self.running
    prev_gesture,     \* self.prev_gesture
    gesture_history,  \* self.gesture_history
    calibration_mode, \* self.calibration_mode
    recording_gesture,\* self.recording_gesture
    recording_name,   \* self.recording_name
    recording_frames, \* self.recording_frames
    frame_count,      \* process_video's local frame_count
    fpc,              \* where the frame loop is: "read" | "hands"
    hands,            \* results.multi_hand_landmarks still to be processed
    trace,            \* what the most recent step did, in order
    restarts,         \* how many times the process has been started again
    server_socket,    \* self.server_socket: "none" | "listening" | "closed"
    cpc,              \* where the command loop is: "off" | "recv" | ... | "done"
    cloc,             \* the command loop's locals while it handles STOP_RECORD
    floc,             \* the frame loop's locals while it handles one hand
    landmark,         \* hand_landmarks.landmark of the hand being measured
    features,         \* what the two calculate_finger_* methods returned for it
    sent_labels,      \* the labels of the last two GESTURE messages sent
    busy_seen         \* hands processed outside Idle between and since them

\* the sockets' side of the state, the loops' locals, the feature
\* extractor's input and output, and the controller's view
locals == <<cloc, floc>>
geometry == <<landmark, features>>
observed == <<sent_labels, busy_seen>>

vars == <<phase, disk, gestures, client, running, prev_gesture,
          gesture_history, calibration_mode, recording_gesture,
          recording_name, recording_frames, frame_count, fpc, hands,
          trace, restarts, server_socket, cpc, cloc, floc, landmark,
          features, sent_labels, busy_seen>>

----------------------------------------------------------------------------
(* Bounds of the model.                                                    *)

\* process_video stops being scheduled after this many camera frames
MaxFrames == 3
\* the process is started again at most this many times
MaxRestarts == 1
\* camera frames of the store specification
MaxFramesStore == 1
\* camera frames of the capped-buffer specification
MaxFramesCap == 31
\* camera frames of the classification specification
MaxFramesLabels == 6
\* camera frames of the protocol specification
MaxFramesProto == 2
\* camera frames of the specification of the controller's view
MaxFramesSent == 4

----------------------------------------------------------------------------
(* Program constants.                                                      *)

history_max_length == 5
recording_max_frames == 30
max_num_hands == 2

----------------------------------------------------------------------------
(* Floats as exact rationals.                                              *)

Abs(n) == IF n < 0 THEN -n ELSE n

RECURSIVE GCD(_, _)
GCD(a, b) == IF b = 0 THEN a ELSE GCD(b, a % b)

Norm(n, d) == LET g == GCD(Abs(n), d) IN <<n \div g, d \div g>>

R(n) == <<n, 1>>
Tenths(n) == Norm(n, 10)

RAdd(x, y) == Norm(x[1] * y[2] + y[1] * x[2], x[2] * y[2])
RSub(x, y) == Norm(x[1] * y[2] - y[1] * x[2], x[2] * y[2])
RMul(x, y) == Norm(x[1] * y[1], x[2] * y[2])
RDivInt(x, n) == Norm(x[1], x[2] * n)
RAbs(x) == <<Abs(x[1]), x[2]>>
RGt(x, y) == x[1] * y[2] > y[1] * x[2]
RGe(x, y) == x[1] * y[2] >= y[1] * x[2]

(* numpy arrays of 5 floats.                                               *)
Fingers == 1..5
np_zeros5 == <<R(0), R(0), R(0), R(0), R(0)>>
VecAdd(u, v) ==
    <<RAdd(u[1], v[1]), RAdd(u[2], v[2]), RAdd(u[3], v[3]),
      RAdd(u[4], v[4]), RAdd(u[5], v[5])>>
VecSub(u, v) ==
    <<RSub(u[1], v[1]), RSub(u[2], v[2]), RSub(u[3], v[3]),
      RSub(u[4], v[4]), RSub(u[5], v[5])>>
VecAbs(u) == <<RAbs(u[1]), RAbs(u[2]), RAbs(u[3]), RAbs(u[4]), RAbs(u[5])>>
VecDivInt(u, n) ==
    <<RDivInt(u[1], n), RDivInt(u[2], n), RDivInt(u[3], n),
      RDivInt(u[4], n), RDivInt(u[5], n)>>
np_mean(u) ==
    RDivInt(RAdd(RAdd(RAdd(RAdd(u[1], u[2]), u[3]), u[4]), u[5]), 5)
Dec(t) == <<Tenths(t[1]), Tenths(t[2]), Tenths(t[3]), Tenths(t[4]), Tenths(t[5])>>

----------------------------------------------------------------------------
(* Strings as token sequences.                                             *)

PKL == ".pkl"
startswith(s, p) == Len(s) >= Len(p) /\ SubSeq(s, 1, Len(p)) = p
endswith_pkl(s) == Len(s) >= 1 /\ s[Len(s)] = PKL
replace_pkl(s) == SelectSeq(s, LAMBDA t : t # PKL)

\* the positions of ":" in s, ascending
ColonsOf(s) == {i \in 1..Len(s) : s[i] = ":"}
Min(S) == CHOOSE x \in S : \A y \in S : x <= y
\* data.split(':')[1] for a string holding at least one ":"
split_colon_1(s) ==
    LET c1 == Min(ColonsOf(s))
        later == {i \in ColonsOf(s) : i > c1}
        stop == IF later = {} THEN Len(s) + 1 ELSE Min(later)
    IN SubSeq(s, c1 + 1, stop - 1)

RECURSIVE join_comma(_)
join_comma(names) ==
    IF names = <<>> THEN <<>>
    ELSE IF Len(names) = 1 THEN names[1]
    ELSE names[1] \o <<",">> \o join_comma(Tail(names))

----------------------------------------------------------------------------
(* dict in insertion order.                                                *)

dict_keys(d) == [i \in 1..Len(d) |-> d[i].name]
dict_has(d, k) == \E i \in 1..Len(d) : d[i].name = k
dict_get(d, k) == d[CHOOSE i \in 1..Len(d) : d[i].name = k].data
dict_set(d, k, v) ==
    IF dict_has(d, k)
    THEN [i \in 1..Len(d) |-> IF d[i].name = k THEN [name |-> k, data |-> v] ELSE d[i]]
    ELSE Append(d, [name |-> k, data |-> v])
dict_del(d, k) == SelectSeq(d, LAMBDA e : e.name # k)

----------------------------------------------------------------------------
(* Gesture templates and the files that hold them.                         *)

Template(a, d) == [angles |-> a, distances |-> d]

\* the literal dict of load_gestures, in its source order
DefaultGestures ==
    << [name |-> <<"thumbs_up">>,
        data |-> Template(Dec(<<2, -9, -9, -9, -9>>), Dec(<<3, 8, 8, 8, 8>>))],
       [name |-> <<"victory">>,
        data |-> Template(Dec(<<-9, 3, 3, -9, -9>>), Dec(<<8, 2, 2, 8, 8>>))],
       [name |-> <<"ok">>,
        data |-> Template(Dec(<<3, 3, -9, -9, -9>>), Dec(<<2, 2, 8, 8, 8>>))],
       [name |-> <<"pointing">>,
        data |-> Template(Dec(<<-9, 3, -9, -9, -9>>), Dec(<<8, 2, 8, 8, 8>>))],
       [name |-> <<"five">>,
        data |-> Template(Dec(<<3, 3, 3, 3, 3>>), Dec(<<2, 2, 2, 2, 2>>))] >>

\* pickle.dump / pickle.load: a file holds the pickled dict or bytes that
\* do not unpickle
NoData == Template(<<>>, <<>>)
pickle_dump(data) == [kind |-> "pickle", data |-> data]
CorruptFile == [kind |-> "corrupt", data |-> NoData]
pickle_raises(content) == content.kind # "pickle"
pickle_load(content) == content.data

\* os.path.join(self.gestures_dir, f"{name}.pkl")
gesture_path(name) == name \o <<PKL>>

\* open(path, 'wb') and pickle.dump: the file is created or replaced
save_gesture(d, name, data) ==
    [f \in DOMAIN d \cup {gesture_path(name)} |->
        IF f = gesture_path(name) THEN pickle_dump(data) ELSE d[f]]

\* os.remove(path): raises when the file is absent, which the caller swallows
os_remove(d, path) == [f \in DOMAIN d \ {path} |-> d[f]]

\* os.listdir gives the directory's entries in an order the file system
\* chooses; the model draws it from two orders over a fixed ranking
FileRanking ==
    << <<"a", PKL>>, <<"a", PKL, PKL>>, <<"b", PKL>>, <<"five", PKL>>,
       <<"notes">>, <<"ok", PKL>>, <<"pointing", PKL>>,
       <<"thumbs_up", PKL>>, <<"victory", PKL>> >>
Reverse(s) == [i \in 1..Len(s) |-> s[Len(s) + 1 - i]]
os_listdir(d) ==
    LET asc == SelectSeq(FileRanking, LAMBDA f : f \in DOMAIN d)
    IN {asc, Reverse(asc)}

\* lines 57-61: the loop over gesture_files; stops at the first record
\* whose pickle.load raises
RECURSIVE load_files(_, _, _)
load_files(files, d, g) ==
    IF files = <<>> THEN [ok |-> TRUE, gestures |-> g]
    ELSE IF pickle_raises(d[Head(files)]) THEN [ok |-> FALSE, gestures |-> g]
    ELSE load_files(Tail(files), d,
                    dict_set(g, replace_pkl(Head(files)), pickle_load(d[Head(files)])))

\* lines 88-89: save every default gesture
RECURSIVE save_all(_, _)
save_all(d, g) ==
    IF g = <<>> THEN d
    ELSE save_all(save_gesture(d, Head(g).name, Head(g).data), Tail(g))

\* load_gestures for one listing of the directory:
\* [ok, gestures, disk], ok = FALSE when an exception leaves the method
load_gestures(listing, d) ==
    LET gesture_files == SelectSeq(listing, endswith_pkl)
    IN IF gesture_files # <<>>
       THEN LET r == load_files(gesture_files, d, <<>>)
            IN [ok |-> r.ok, gestures |-> r.gestures, disk |-> d]
       ELSE [ok |-> TRUE, gestures |-> DefaultGestures,
             disk |-> save_all(d, DefaultGestures)]

----------------------------------------------------------------------------
(* Feature frames the tracker can deliver.                                 *)

FeatureFrame(a, d) == [angles |-> a, distances |-> d]
F_fist == FeatureFrame(Dec(<<-10, -10, -10, -10, -10>>), Dec(<<0, 0, 0, 0, 0>>))
F_five == FeatureFrame(Dec(<<3, 3, 3, 3, 3>>), Dec(<<2, 2, 2, 2, 2>>))

\* every component 0.4 away from the template "five": similarity exactly 0.6
F_edge == FeatureFrame(Dec(<<7, 7, 7, 7, 7>>), Dec(<<6, 6, 6, 6, 6>>))
\* halfway between the templates "victory" and "pointing"
F_tie == FeatureFrame(Dec(<<-9, 3, -3, -9, -9>>), Dec(<<8, 2, 5, 8, 8>>))
F_pointing == FeatureFrame(Dec(<<-9, 3, -9, -9, -9>>), Dec(<<8, 2, 8, 8, 8>>))
F_ok == FeatureFrame(Dec(<<3, 3, -9, -9, -9>>), Dec(<<2, 2, 8, 8, 8>>))

\* directories the process can find at its first start
EmptyDisk == [f \in {} |-> CorruptFile]
DiskWithCorrupt ==
    [f \in {<<"five", PKL>>, <<"b", PKL>>, <<"notes">>} |->
        IF f = <<"five", PKL>> THEN pickle_dump(DefaultGestures[5].data)
        ELSE CorruptFile]
DiskWithNotes ==
    [f \in {<<"five", PKL>>, <<"notes">>} |->
        IF f = <<"five", PKL>> THEN pickle_dump(DefaultGestures[5].data)
        ELSE CorruptFile]
InitDisks == {EmptyDisk, DiskWithCorrupt, DiskWithNotes}

----------------------------------------------------------------------------
(* What a step did: entries of trace.                                      *)

Ev(op, arg) == [op |-> op, arg |-> arg]
Did(op, arg) == \E i \in 1..Len(trace) : trace[i] = Ev(op, arg)
DidOp(op) == \E i \in 1..Len(trace) : trace[i].op = op

\* a loop that holds no locals, a hand not measured yet
NoLocals == [at |-> "none"]
\* no hand was processed outside Idle
NotBusy == [between |-> FALSE, since |-> FALSE]

InitOn(disks) ==
    /\ phase = "boot"
    /\ disk \in disks
    /\ gestures = <<>>
    /\ client = "none"
    /\ running = FALSE
    /\ prev_gesture = <<"unknown">>
    /\ gesture_history = <<>>
    /\ calibration_mode = FALSE
    /\ recording_gesture = FALSE
    /\ recording_name = <<>>
    /\ recording_frames = <<>>
    /\ frame_count = 0
    /\ fpc = "read"
    /\ hands = <<>>
    /\ trace = <<>>
    /\ restarts = 0
    /\ server_socket = "none"
    /\ cpc = "off"
    /\ cloc = NoLocals
    /\ floc = NoLocals
    /\ landmark = <<>>
    /\ features = NoLocals
    /\ sent_labels = <<>>
    /\ busy_seen = NotBusy

\* __init__, lines 24-47: the listening socket, load_gestures, then the
\* tracking variables.
\* An exception of load_gestures leaves __init__ and ends the process.
HandSignRecognizer_init ==
    /\ phase = "boot"
    /\ \E listing \in os_listdir(disk) :
         LET r == load_gestures(listing, disk)
         IN /\ gestures' = r.gestures
            /\ disk' = r.disk
            /\ phase' = IF r.ok THEN "constructed" ELSE "crashed"
            /\ trace' = <<Ev("init", <<>>)>>
    /\ client' = "none"
    /\ running' = FALSE
    /\ prev_gesture' = <<"unknown">>
    /\ gesture_history' = <<>>
    /\ calibration_mode' = FALSE
    /\ recording_gesture' = FALSE
    /\ recording_name' = <<>>
    /\ recording_frames' = <<>>
    /\ server_socket' = "listening"
    /\ UNCHANGED <<frame_count, fpc, hands, restarts, cpc, locals, geometry,
                   observed>>

\* start_server and accept_client up to the start of the two loops
accept_client ==
    /\ phase = "constructed"
    /\ running' = TRUE
    /\ client' = "conn"
    /\ phase' = "serving"
    /\ frame_count' = 0
    /\ fpc' = "read"
    /\ hands' = <<>>
    /\ cpc' = "recv"
    /\ trace' = <<Ev("accept", <<>>)>>
    /\ UNCHANGED <<disk, gestures, prev_gesture, gesture_history,
                   calibration_mode, recording_gesture, recording_name,
                   recording_frames, restarts, server_socket, locals,
                   geometry, observed>>

\* send_to_client: the message goes out when a client is connected; on a
\* socket that was closed send raises, which is caught and printed
send_to_client(message) ==
    IF client = "conn" THEN <<Ev("send", message)>> ELSE <<>>

----------------------------------------------------------------------------
(* The classifier and the smoother.                                        *)

UNKNOWN == <<"unknown">>
CALIBRATING == <<"calibrating">>

\* lines 271-275: the weighted similarity of a frame to one template
similarity(finger_angles, finger_distances, template) ==
    LET angle_similarity ==
            RSub(R(1), np_mean(VecAbs(VecSub(finger_angles, template.angles))))
        dist_similarity ==
            RSub(R(1), np_mean(VecAbs(VecSub(finger_distances, template.distances))))
    IN RAdd(RMul(angle_similarity, Tenths(7)), RMul(dist_similarity, Tenths(3)))

\* a faulty comparison: an equal score replaces the running best too
better_or_equal(sim, best_score) == RGe(sim, best_score)

\* line 277: a template replaces the running best on a strictly higher score
better(sim, best_score) == RGt(sim, best_score)

\* lines 269-279: the loop over self.gestures.items()
RECURSIVE scan_gestures(_, _, _, _, _)
scan_gestures(g, finger_angles, finger_distances, best_match, best_score) ==
    IF g = <<>> THEN best_match
    ELSE LET sim == similarity(finger_angles, finger_distances, Head(g).data)
         IN IF better(sim, best_score)
            THEN scan_gestures(Tail(g), finger_angles, finger_distances,
                               Head(g).name, sim)
            ELSE scan_gestures(Tail(g), finger_angles, finger_distances,
                               best_match, best_score)

\* a faulty mode check: only calibration bypasses the classifier
recognize_gesture_unless_calibrating(cal, rec, g, finger_angles, finger_distances) ==
    IF cal THEN CALIBRATING
    ELSE scan_gestures(g, finger_angles, finger_distances, UNKNOWN, Tenths(6))

\* recognize_gesture, lines 261-281, reading the flags and the store given
recognize_gesture(cal, rec, g, finger_angles, finger_distances) ==
    IF cal \/ rec THEN CALIBRATING
    ELSE scan_gestures(g, finger_angles, finger_distances, UNKNOWN, Tenths(6))

\* a faulty window: the newest label is dropped, not the oldest
push_history_drops_newest(history, gesture) ==
    LET h == Append(history, gesture)
    IN IF Len(h) > history_max_length THEN SubSeq(h, 1, history_max_length) ELSE h

\* lines 285-287: append, then drop the oldest beyond history_max_length
push_history(history, gesture) ==
    LET h == Append(history, gesture)
    IN IF Len(h) > history_max_length THEN Tail(h) ELSE h

\* lines 290-294: gesture_counts, a dict keyed in first-seen order
RECURSIVE count_gestures(_, _)
count_gestures(history, counts) ==
    IF history = <<>> THEN counts
    ELSE LET g == Head(history)
             c == IF dict_has(counts, g) THEN dict_get(counts, g) ELSE 0
         IN count_gestures(Tail(history), dict_set(counts, g, c + 1))

\* line 297: max(gesture_counts, key=gesture_counts.get), the first key
\* in dict order that holds the largest count
most_common_of(counts) ==
    counts[CHOOSE i \in 1..Len(counts) :
              /\ \A j \in 1..Len(counts) : counts[j].data <= counts[i].data
              /\ \A j \in 1..(i - 1) : counts[j].data < counts[i].data].name

\* a faulty threshold: 40% of the window
reaches_threshold_forty(count) == count * 10 >= history_max_length * 4

\* line 300: count >= history_max_length * 0.6
reaches_threshold(count) == count * 10 >= history_max_length * 6

\* smooth_gesture_prediction, lines 283-303: the new history and the result
smooth_gesture_prediction(history, prev, gesture) ==
    LET h == push_history(history, gesture)
        gesture_counts == count_gestures(h, <<>>)
        most_common == most_common_of(gesture_counts)
    IN [history |-> h,
        result |-> IF reaches_threshold(dict_get(gesture_counts, most_common))
                   THEN most_common ELSE prev]

----------------------------------------------------------------------------
(* The command loop: one recv and its dispatch.                            *)

NL == "NL"
IsSpace(t) == t = NL \/ t = " "
RECURSIVE lstrip(_)
lstrip(s) == IF s # <<>> /\ IsSpace(Head(s)) THEN lstrip(Tail(s)) ELSE s
\* str.strip()
strip(s) == Reverse(lstrip(Reverse(lstrip(s))))

\* lines 147-155: the sums over the buffered frames, then the division
RECURSIVE sum_frames(_, _, _)
sum_frames(frames, angles_sum, distances_sum) ==
    IF frames = <<>> THEN [angles |-> angles_sum, distances |-> distances_sum]
    ELSE sum_frames(Tail(frames),
                    VecAdd(angles_sum, Head(frames).angles),
                    VecAdd(distances_sum, Head(frames).distances))

\* a faulty average: divides by the buffer's capacity, not its length
average_by_capacity(frames) ==
    LET s == sum_frames(frames, np_zeros5, np_zeros5)
    IN Template(VecDivInt(s.angles, recording_max_frames),
                VecDivInt(s.distances, recording_max_frames))

average_gesture(frames) ==
    LET s == sum_frames(frames, np_zeros5, np_zeros5)
    IN Template(VecDivInt(s.angles, Len(frames)),
                VecDivInt(s.distances, Len(frames)))

\* a faulty condition: the recording flag is not consulted
stop_record_saves_unflagged(rec, frames) == frames # <<>>

\* line 145: the condition under which STOP_RECORD saves a template
stop_record_saves(rec, frames) == rec /\ frames # <<>>

\* a faulty STOP_RECORD: the flag is left as it was
recording_kept_after_stop(rec) == rec

\* line 168: self.recording_gesture after STOP_RECORD
recording_after_stop(rec) == FALSE

\* line 172: self.calibration_mode after STOP_CALIBRATE
calibration_after_stop(cal) == FALSE

\* line 182: the condition under which DELETE_GESTURE deletes
delete_applies(g, gesture_name) == dict_has(g, gesture_name)

\* lines 157-166: store, persist, then acknowledge
save_steps(name, new_gesture) ==
    <<Ev("put", name), Ev("dump", gesture_path(name))>>
        \o send_to_client(<<"GESTURE_SAVED", ":">> \o name)

\* the part of the state one command reads and writes, and what it did
Session(cal, rec, frames, name, g, d) ==
    [calibration_mode |-> cal, recording_gesture |-> rec,
     recording_frames |-> frames, recording_name |-> name,
     gestures |-> g, disk |-> d, trace |-> <<>>]

\* lines 134-188: the if/elif chain on one stripped, non-empty text
dispatch(s, data) ==
    IF startswith(data, <<"CALIBRATE", ":">>) THEN
       [s EXCEPT !.calibration_mode = TRUE, !.trace = <<Ev("cmd", data)>>]
    ELSE IF startswith(data, <<"RECORD", ":">>) THEN
       [s EXCEPT !.recording_gesture = TRUE,
                 !.recording_frames = <<>>,
                 !.recording_name = split_colon_1(data),
                 !.trace = <<Ev("cmd", data)>>]
    ELSE IF data = <<"STOP_RECORD">> THEN
       IF stop_record_saves(s.recording_gesture, s.recording_frames)
       THEN LET new_gesture == average_gesture(s.recording_frames)
            IN [s EXCEPT
                  !.gestures = dict_set(s.gestures, s.recording_name, new_gesture),
                  !.disk = save_gesture(s.disk, s.recording_name, new_gesture),
                  !.recording_gesture = recording_after_stop(s.recording_gesture),
                  !.trace = <<Ev("cmd", data)>>
                               \o save_steps(s.recording_name, new_gesture)]
       ELSE [s EXCEPT
               !.recording_gesture = recording_after_stop(s.recording_gesture),
               !.trace = <<Ev("cmd", data)>>]
    ELSE IF data = <<"STOP_CALIBRATE">> THEN
       [s EXCEPT !.calibration_mode = calibration_after_stop(s.calibration_mode),
                 !.trace = <<Ev("cmd", data)>>
                              \o send_to_client(<<"CALIBRATION_COMPLETE">>)]
    ELSE IF data = <<"GET_GESTURES">> \/ data = <<"LIST_GESTURES">> THEN
       [s EXCEPT !.trace = <<Ev("cmd", data)>>
                    \o send_to_client(<<"GESTURES", ":">>
                                         \o join_comma(dict_keys(s.gestures)))]
    ELSE IF startswith(data, <<"DELETE_GESTURE", ":">>) THEN
       LET gesture_name == split_colon_1(data)
           path == gesture_path(gesture_name)
       IN IF delete_applies(s.gestures, gesture_name)
          THEN [s EXCEPT
                  !.gestures = dict_del(s.gestures, gesture_name),
                  !.disk = os_remove(s.disk, path),
                  !.trace = <<Ev("cmd", data), Ev("del", gesture_name),
                              Ev(IF path \in DOMAIN s.disk THEN "remove"
                                 ELSE "remove_raised", path)>>
                               \o send_to_client(<<"DELETED", ":">> \o gesture_name)]
          ELSE [s EXCEPT !.trace = <<Ev("cmd", data)>>]
    ELSE [s EXCEPT !.trace = <<Ev("cmd", data)>>]

\* a byte that is not UTF-8, and bytes.decode('utf-8') raising on it
BadByte == "\\xff"
decode_raises(received) == \E i \in 1..Len(received) : received[i] = BadByte

\* read_from_client, lines 129-188: one turn of the loop for one received
\* text; a text that strips to nothing ends the loop (line 131), and so
\* does an exception, which line 190 catches
read_from_client(received) ==
    /\ phase = "serving"
    /\ running
    /\ cpc = "recv"
    /\ client = "conn"
    /\ \E data \in {strip(received)} :
         IF decode_raises(received)
         THEN /\ cpc' = "done"
              /\ trace' = <<Ev("raised", received)>>
              /\ UNCHANGED <<calibration_mode, recording_gesture,
                             recording_frames, recording_name, gestures, disk>>
         ELSE IF data = <<>>
         THEN /\ cpc' = "done"
              /\ trace' = <<Ev("eof", received)>>
              /\ UNCHANGED <<calibration_mode, recording_gesture,
                             recording_frames, recording_name, gestures, disk>>
         ELSE \E r \in {dispatch(Session(calibration_mode, recording_gesture,
                                         recording_frames, recording_name,
                                         gestures, disk), data)} :
                /\ calibration_mode' = r.calibration_mode
                /\ recording_gesture' = r.recording_gesture
                /\ recording_frames' = r.recording_frames
                /\ recording_name' = r.recording_name
                /\ gestures' = r.gestures
                /\ disk' = r.disk
                /\ trace' = r.trace
                /\ UNCHANGED cpc
    /\ UNCHANGED <<phase, client, running, prev_gesture, gesture_history,
                   frame_count, fpc, hands, restarts, server_socket, locals,
                   geometry, observed>>

----------------------------------------------------------------------------
(* The frame loop.                                                         *)

\* lines 321-346: one camera frame is read and the tracker reports its hands
cap_read(frameCap, handLists) ==
    /\ phase = "serving"
    /\ running
    /\ fpc = "read"
    /\ frame_count < frameCap
    /\ \E hs \in handLists : hands' = hs
    /\ fpc' = "hands"
    /\ trace' = <<Ev("frame", <<>>)>>
    /\ UNCHANGED <<phase, disk, gestures, client, running, prev_gesture,
                   gesture_history, calibration_mode, recording_gesture,
                   recording_name, recording_frames, frame_count, restarts,
                   server_socket, cpc, locals, geometry, observed>>

\* a faulty bound: one frame more than the capacity is accepted
records_frame_inclusive(rec, frames, count) ==
    rec /\ Len(frames) <= recording_max_frames /\ count % 2 = 0

\* line 362 and 364: the condition under which a hand's features are buffered
records_frame(rec, frames, count) ==
    rec /\ Len(frames) < recording_max_frames /\ count % 2 = 0

\* line 374 and 379: neither calibrating nor recording
not_busy(cal, rec) == ~cal /\ ~rec

\* a faulty comparison: every label counts as new
label_changed_always(gesture, prev) == TRUE

\* line 378: the label is new
label_changed(gesture, prev) == gesture # prev

\* lines 347-382: the body of the loop over the hands, for the next hand
hand_step ==
    /\ phase = "serving"
    /\ fpc = "hands"
    /\ hands # <<>>
    /\ \E raw \in {recognize_gesture(calibration_mode, recording_gesture, gestures,
                                     Head(hands).angles, Head(hands).distances)} :
       \E sm \in {smooth_gesture_prediction(gesture_history, prev_gesture, raw)} :
       LET hand == Head(hands)
           buffered == records_frame(recording_gesture, recording_frames, frame_count)
           smoothing == not_busy(calibration_mode, recording_gesture)
           gesture == IF smoothing THEN sm.result ELSE raw
           changed == label_changed(gesture, prev_gesture)
       IN /\ recording_frames' =
                IF buffered THEN Append(recording_frames, hand) ELSE recording_frames
          /\ gesture_history' = IF smoothing THEN sm.history ELSE gesture_history
          /\ prev_gesture' = IF changed THEN gesture ELSE prev_gesture
          /\ trace' = <<Ev("hand", <<>>)>>
                \o (IF buffered THEN <<Ev("append", <<>>)>> ELSE <<>>)
                \o <<Ev("raw", raw)>>
                \o (IF smoothing THEN <<Ev("smooth", gesture)>> ELSE <<>>)
                \o (IF changed /\ not_busy(calibration_mode, recording_gesture)
                    THEN send_to_client(<<"GESTURE", ":">> \o gesture) ELSE <<>>)
    /\ hands' = Tail(hands)
    /\ UNCHANGED <<phase, disk, gestures, client, running, calibration_mode,
                   recording_gesture, recording_name, frame_count, fpc, restarts,
                   server_socket, cpc, locals, geometry>>

\* the body of the loop with no controller watching
process_hand == hand_step /\ UNCHANGED observed

\* the body of the loop and what the controller gets to see of it: the
\* GESTURE message of line 381, if one is sent, after those sent before
process_hand_observed ==
    /\ hand_step
    /\ LET labels == {trace'[i].arg : i \in
                        {j \in 1..Len(trace') :
                            /\ trace'[j].op = "send"
                            /\ trace'[j].arg[1] = "GESTURE"}}
           busy == ~not_busy(calibration_mode, recording_gesture)
       IN IF labels # {}
          THEN /\ sent_labels' =
                     (IF sent_labels = <<>> THEN <<>>
                      ELSE <<sent_labels[Len(sent_labels)]>>)
                        \o <<prev_gesture'>>
               /\ busy_seen' = [between |-> busy_seen.since, since |-> FALSE]
          ELSE /\ sent_labels' = sent_labels
               /\ busy_seen' = [busy_seen EXCEPT !.since = @ \/ busy]

\* lines 395-402: the frame is shown and frame_count incremented
end_frame ==
    /\ phase = "serving"
    /\ fpc = "hands"
    /\ hands = <<>>
    /\ frame_count' = frame_count + 1
    /\ fpc' = "read"
    /\ trace' = <<Ev("shown", <<>>)>>
    /\ UNCHANGED <<phase, disk, gestures, client, running, prev_gesture,
                   gesture_history, calibration_mode, recording_gesture,
                   recording_name, recording_frames, hands, restarts,
                   server_socket, cpc, locals, geometry, observed>>

\* lines 414-416: the process ends and is started again; only the gestures
\* directory survives
Restart ==
    /\ phase = "serving"
    /\ restarts < MaxRestarts
    /\ restarts' = restarts + 1
    /\ phase' = "boot"
    /\ gestures' = <<>>
    /\ client' = "none"
    /\ running' = FALSE
    /\ prev_gesture' = <<"unknown">>
    /\ gesture_history' = <<>>
    /\ calibration_mode' = FALSE
    /\ recording_gesture' = FALSE
    /\ recording_name' = <<>>
    /\ recording_frames' = <<>>
    /\ frame_count' = 0
    /\ fpc' = "read"
    /\ hands' = <<>>
    /\ trace' = <<Ev("exit", <<>>)>>
    /\ server_socket' = "none"
    /\ cpc' = "off"
    /\ UNCHANGED <<disk, locals, geometry, observed>>

----------------------------------------------------------------------------
(* Leaving the loops: stop(), the breaks of the frame loop, and the        *)
(* finally block of accept_client.                                         *)

\* frame_count is read only modulo 2 (line 364)
FrameCountPeriod == 2

\* lines 395-399 with the counter kept modulo FrameCountPeriod, so that
\* the loop can go round for ever
end_frame_running ==
    /\ phase = "serving"
    /\ fpc = "hands"
    /\ hands = <<>>
    /\ frame_count' = (frame_count + 1) % FrameCountPeriod
    /\ fpc' = "read"
    /\ trace' = <<Ev("shown", <<>>)>>
    /\ UNCHANGED <<phase, disk, gestures, client, running, prev_gesture,
                   gesture_history, calibration_mode, recording_gesture,
                   recording_name, recording_frames, hands, restarts,
                   server_socket, cpc, locals, geometry, observed>>

\* lines 407-412: stop() clears running and closes both sockets
stop ==
    /\ phase = "serving"
    /\ running
    /\ running' = FALSE
    /\ client' = IF client = "none" THEN client ELSE "closed"
    /\ server_socket' = "closed"
    /\ trace' = <<Ev("stop", <<>>)>>
    /\ UNCHANGED <<phase, disk, gestures, prev_gesture, gesture_history,
                   calibration_mode, recording_gesture, recording_name,
                   recording_frames, frame_count, fpc, hands, restarts, cpc,
                   locals, geometry, observed>>

\* line 321: the frame loop's condition fails once running is cleared
while_running_fails ==
    /\ phase = "serving"
    /\ client # "none"
    /\ fpc = "read"
    /\ ~running
    /\ fpc' = "break"
    /\ trace' = <<Ev("loop_end", <<>>)>>
    /\ UNCHANGED <<phase, disk, gestures, client, running, prev_gesture,
                   gesture_history, calibration_mode, recording_gesture,
                   recording_name, recording_frames, frame_count, hands,
                   restarts, server_socket, cpc, locals, geometry, observed>>

\* lines 322-325: the camera delivers no frame
cap_read_fails ==
    /\ phase = "serving"
    /\ client # "none"
    /\ fpc = "read"
    /\ running
    /\ fpc' = "break"
    /\ trace' = <<Ev("no_frame", <<>>)>>
    /\ UNCHANGED <<phase, disk, gestures, client, running, prev_gesture,
                   gesture_history, calibration_mode, recording_gesture,
                   recording_name, recording_frames, frame_count, hands,
                   restarts, server_socket, cpc, locals, geometry, observed>>

\* lines 399-402: ESC is pressed in the window after a frame is shown
esc_pressed ==
    /\ phase = "serving"
    /\ fpc = "hands"
    /\ hands = <<>>
    /\ frame_count' = (frame_count + 1) % FrameCountPeriod
    /\ fpc' = "break"
    /\ trace' = <<Ev("esc", <<>>)>>
    /\ UNCHANGED <<phase, disk, gestures, client, running, prev_gesture,
                   gesture_history, calibration_mode, recording_gesture,
                   recording_name, recording_frames, hands, restarts,
                   server_socket, cpc, locals, geometry, observed>>

\* lines 404-405 and 121-124: process_video returns and accept_client's
\* finally block closes the connection and the listening socket
process_video_returns ==
    /\ fpc = "break"
    /\ fpc' = "done"
    /\ client' = "closed"
    /\ server_socket' = "closed"
    /\ trace' = <<Ev("released", <<>>)>>
    /\ UNCHANGED <<phase, disk, gestures, running, prev_gesture,
                   gesture_history, calibration_mode, recording_gesture,
                   recording_name, recording_frames, frame_count, hands,
                   restarts, cpc, locals, geometry, observed>>

----------------------------------------------------------------------------
(* The two threads statement by statement: the command loop's STOP_RECORD  *)
(* and the frame loop's body for one hand, split where they read or write  *)
(* what the other thread writes. cloc and floc hold the locals of the two  *)
(* threads, cpc and fpc their positions.                                   *)

\* the locals of STOP_RECORD: the list iterator's index and lines 147-155
StopLocals(i, angles_sum, distances_sum, avg_angles, avg_distances) ==
    [at |-> "stop_record", i |-> i,
     angles_sum |-> angles_sum, distances_sum |-> distances_sum,
     avg_angles |-> avg_angles, avg_distances |-> avg_distances]

\* the locals of the loop body: the hand's label; the dict iterator (the
\* slot it yields next and the size it was created on); lines 266-267
HandLocals(gesture, pos, used, best_match, best_score) ==
    [at |-> "hand", gesture |-> gesture, pos |-> pos, used |-> used,
     best_match |-> best_match, best_score |-> best_score]

\* del leaves the deleted entry's slot in place, so an iterator past it
\* stays on the entry it was on: the slot to yield next, in the dict after
\* the deletion of gesture_name
slot_after_del(g, gesture_name, pos) ==
    pos - Cardinality({i \in 1..Len(g) : i < pos /\ g[i].name = gesture_name})

\* lines 130-188 for a command other than STOP_RECORD: one recv and its
\* branch of the chain
command_step(received) ==
    /\ phase = "serving"
    /\ running
    /\ cpc = "recv"
    /\ client = "conn"
    /\ strip(received) # <<>>
    /\ strip(received) # <<"STOP_RECORD">>
    /\ \E r \in {dispatch(Session(calibration_mode, recording_gesture,
                                  recording_frames, recording_name,
                                  gestures, disk), strip(received))} :
          /\ calibration_mode' = r.calibration_mode
          /\ recording_gesture' = r.recording_gesture
          /\ recording_frames' = r.recording_frames
          /\ recording_name' = r.recording_name
          /\ gestures' = r.gestures
          /\ disk' = r.disk
          /\ trace' = r.trace
          /\ floc' = IF fpc = "scan" /\ Len(r.gestures) < Len(gestures)
                     THEN [floc EXCEPT !.pos =
                             slot_after_del(gestures,
                                            split_colon_1(strip(received)), @)]
                     ELSE floc
    /\ UNCHANGED <<phase, client, running, prev_gesture, gesture_history,
                   frame_count, fpc, hands, restarts, server_socket, cpc, cloc,
                   geometry, observed>>

\* recv on the connection the frame loop's thread has closed raises, and
\* line 190 ends the command loop
recv_closed ==
    /\ phase = "serving"
    /\ cpc = "recv"
    /\ client = "closed"
    /\ cpc' = "done"
    /\ trace' = <<Ev("raised", <<>>)>>
    /\ UNCHANGED <<phase, disk, gestures, client, running, prev_gesture,
                   gesture_history, calibration_mode, recording_gesture,
                   recording_name, recording_frames, frame_count, fpc, hands,
                   restarts, server_socket, locals, geometry, observed>>

\* lines 144-148: STOP_RECORD is received and its condition evaluated
stop_record_enter(received) ==
    /\ phase = "serving"
    /\ running
    /\ cpc = "recv"
    /\ client = "conn"
    /\ strip(received) = <<"STOP_RECORD">>
    /\ IF stop_record_saves(recording_gesture, recording_frames)
       THEN /\ cpc' = "sum"
            /\ cloc' = StopLocals(1, np_zeros5, np_zeros5, np_zeros5, np_zeros5)
       ELSE /\ cpc' = "clear"
            /\ cloc' = cloc
    /\ trace' = <<Ev("cmd", strip(received))>>
    /\ UNCHANGED <<phase, disk, gestures, client, running, prev_gesture,
                   gesture_history, calibration_mode, recording_gesture,
                   recording_name, recording_frames, frame_count, fpc, hands,
                   restarts, server_socket, floc, geometry, observed>>

\* lines 150-152: the list iterator yields the frame at its index, if the
\* list is that long by now, and the frame is added to the sums
stop_record_sum ==
    /\ cpc = "sum"
    /\ IF cloc.i <= Len(recording_frames)
       THEN /\ cloc' = [cloc EXCEPT
                          !.i = @ + 1,
                          !.angles_sum =
                              VecAdd(@, recording_frames[cloc.i].angles),
                          !.distances_sum =
                              VecAdd(@, recording_frames[cloc.i].distances)]
            /\ cpc' = cpc
       ELSE /\ cloc' = cloc
            /\ cpc' = "avg_angles"
    /\ trace' = <<Ev("sum", <<>>)>>
    /\ UNCHANGED <<phase, disk, gestures, client, running, prev_gesture,
                   gesture_history, calibration_mode, recording_gesture,
                   recording_name, recording_frames, frame_count, fpc, hands,
                   restarts, server_socket, floc, geometry, observed>>

\* line 154: avg_angles = angles_sum / len(self.recording_frames)
stop_record_avg_angles ==
    /\ cpc = "avg_angles"
    /\ cloc' = [cloc EXCEPT !.avg_angles =
                   VecDivInt(cloc.angles_sum, Len(recording_frames))]
    /\ cpc' = "avg_distances"
    /\ trace' = <<Ev("avg", <<>>)>>
    /\ UNCHANGED <<phase, disk, gestures, client, running, prev_gesture,
                   gesture_history, calibration_mode, recording_gesture,
                   recording_name, recording_frames, frame_count, fpc, hands,
                   restarts, server_socket, floc, geometry, observed>>

\* line 155: avg_distances = distances_sum / len(self.recording_frames)
stop_record_avg_distances ==
    /\ cpc = "avg_distances"
    /\ cloc' = [cloc EXCEPT !.avg_distances =
                   VecDivInt(cloc.distances_sum, Len(recording_frames))]
    /\ cpc' = "store"
    /\ trace' = <<Ev("avg", <<>>)>>
    /\ UNCHANGED <<phase, disk, gestures, client, running, prev_gesture,
                   gesture_history, calibration_mode, recording_gesture,
                   recording_name, recording_frames, frame_count, fpc, hands,
                   restarts, server_socket, floc, geometry, observed>>

\* lines 157-166: the template is stored, persisted and acknowledged
stop_record_store ==
    /\ cpc = "store"
    /\ LET new_gesture == Template(cloc.avg_angles, cloc.avg_distances)
       IN /\ gestures' = dict_set(gestures, recording_name, new_gesture)
          /\ disk' = save_gesture(disk, recording_name, new_gesture)
          /\ trace' = save_steps(recording_name, new_gesture)
    /\ cpc' = "clear"
    /\ cloc' = NoLocals
    /\ UNCHANGED <<phase, client, running, prev_gesture, gesture_history,
                   calibration_mode, recording_gesture, recording_name,
                   recording_frames, frame_count, fpc, hands, restarts,
                   server_socket, floc, geometry, observed>>

\* line 168: the recording flag is cleared
stop_record_clear ==
    /\ cpc = "clear"
    /\ recording_gesture' = recording_after_stop(recording_gesture)
    /\ cpc' = "recv"
    /\ trace' = <<Ev("cleared", <<>>)>>
    /\ UNCHANGED <<phase, disk, gestures, client, running, prev_gesture,
                   gesture_history, calibration_mode, recording_name,
                   recording_frames, frame_count, fpc, hands, restarts,
                   server_socket, locals, geometry, observed>>

\* lines 361-368: the hand's features are buffered while recording
hand_buffer ==
    /\ phase = "serving"
    /\ fpc = "hands"
    /\ hands # <<>>
    /\ LET buffered == records_frame(recording_gesture, recording_frames,
                                     frame_count)
       IN /\ recording_frames' = IF buffered
                                 THEN Append(recording_frames, Head(hands))
                                 ELSE recording_frames
          /\ trace' = <<Ev("hand", <<>>)>>
                         \o (IF buffered THEN <<Ev("append", <<>>)>> ELSE <<>>)
    /\ fpc' = "recognize"
    /\ UNCHANGED <<phase, disk, gestures, client, running, prev_gesture,
                   gesture_history, calibration_mode, recording_gesture,
                   recording_name, frame_count, hands, restarts, server_socket,
                   cpc, locals, geometry, observed>>

\* lines 263-269: the mode check of recognize_gesture; outside Idle the
\* label is "calibrating", in Idle the iteration over the store begins
recognize_enter ==
    /\ fpc = "recognize"
    /\ IF calibration_mode \/ recording_gesture
       THEN /\ floc' = HandLocals(CALIBRATING, 0, 0, UNKNOWN, Tenths(6))
            /\ fpc' = "smooth"
       ELSE /\ floc' = HandLocals(UNKNOWN, 1, Len(gestures), UNKNOWN, Tenths(6))
            /\ fpc' = "scan"
    /\ trace' = <<Ev("mode", <<>>)>>
    /\ UNCHANGED <<phase, disk, gestures, client, running, prev_gesture,
                   gesture_history, calibration_mode, recording_gesture,
                   recording_name, recording_frames, frame_count, hands,
                   restarts, server_socket, cpc, cloc, geometry, observed>>

\* lines 269-281: the dict iterator is asked for the next item. It raises
\* RuntimeError when the dict's size is not the one it was created on; the
\* exception leaves process_video and is caught on line 119, and lines
\* 121-124 close both sockets
scan_next ==
    /\ fpc = "scan"
    /\ IF Len(gestures) # floc.used
       THEN /\ fpc' = "raised"
            /\ floc' = NoLocals
            /\ client' = "closed"
            /\ server_socket' = "closed"
            /\ trace' = <<Ev("raised", <<"RuntimeError">>)>>
       ELSE IF floc.pos > Len(gestures)
       THEN /\ fpc' = "smooth"
            /\ floc' = [floc EXCEPT !.gesture = floc.best_match]
            /\ trace' = <<Ev("raw", floc.best_match)>>
            /\ UNCHANGED <<client, server_socket>>
       ELSE /\ \E sim \in {similarity(Head(hands).angles, Head(hands).distances,
                                      gestures[floc.pos].data)} :
                 floc' = IF better(sim, floc.best_score)
                         THEN [floc EXCEPT !.pos = @ + 1,
                                           !.best_match = gestures[floc.pos].name,
                                           !.best_score = sim]
                         ELSE [floc EXCEPT !.pos = @ + 1]
            /\ fpc' = fpc
            /\ trace' = <<Ev("item", gestures[floc.pos].name)>>
            /\ UNCHANGED <<client, server_socket>>
    /\ UNCHANGED <<phase, disk, gestures, running, prev_gesture,
                   gesture_history, calibration_mode, recording_gesture,
                   recording_name, recording_frames, frame_count, hands,
                   restarts, cpc, cloc, geometry, observed>>

\* lines 374-375: the mode check before smoothing, and the smoother
smooth_step ==
    /\ fpc = "smooth"
    /\ IF not_busy(calibration_mode, recording_gesture)
       THEN \E sm \in {smooth_gesture_prediction(gesture_history, prev_gesture,
                                                 floc.gesture)} :
              /\ gesture_history' = sm.history
              /\ floc' = [floc EXCEPT !.gesture = sm.result]
              /\ trace' = <<Ev("smooth", sm.result)>>
       ELSE /\ gesture_history' = gesture_history
            /\ floc' = floc
            /\ trace' = <<Ev("unsmoothed", floc.gesture)>>
    /\ fpc' = "announce"
    /\ UNCHANGED <<phase, disk, gestures, client, running, prev_gesture,
                   calibration_mode, recording_gesture, recording_name,
                   recording_frames, frame_count, hands, restarts,
                   server_socket, cpc, cloc, geometry, observed>>

\* lines 378-382: a new label is sent if the modes allow it at this moment,
\* and remembered; the loop goes on to the next hand
announce_step ==
    /\ fpc = "announce"
    /\ IF label_changed(floc.gesture, prev_gesture)
       THEN /\ trace' = <<Ev("changed", floc.gesture)>>
                  \o (IF not_busy(calibration_mode, recording_gesture)
                      THEN send_to_client(<<"GESTURE", ":">> \o floc.gesture)
                      ELSE <<>>)
            /\ prev_gesture' = floc.gesture
       ELSE /\ trace' = <<Ev("same", floc.gesture)>>
            /\ prev_gesture' = prev_gesture
    /\ hands' = Tail(hands)
    /\ fpc' = "hands"
    /\ floc' = NoLocals
    /\ UNCHANGED <<phase, disk, gestures, client, running, gesture_history,
                   calibration_mode, recording_gesture, recording_name,
                   recording_frames, frame_count, restarts, server_socket,
                   cpc, cloc, geometry, observed>>

----------------------------------------------------------------------------
(* The feature extractor: calculate_finger_angles and                      *)
(* calculate_finger_distances on the 21 landmarks of one hand.             *)
(* A landmark is a point <<x, y>> of two rationals; landmark k of the      *)
(* tracker is entry k + 1 of the hand. A float the extractor computes is   *)
(* [kind, val]: a number, NaN, or 1 - sqrt(val) where the root is not      *)
(* rational.                                                               *)

Num(q) == [kind |-> "num", val |-> q]
NaN == [kind |-> "nan", val |-> R(0)]

lm(hand, k) == hand[k + 1]
PtSub(p, q) == <<RSub(p[1], q[1]), RSub(p[2], q[2])>>
np_dot(u, v) == RAdd(RMul(u[1], v[1]), RMul(u[2], v[2]))

IsSquare(n) == \E r \in 0..n : r * r = n
ISqrt(n) == CHOOSE r \in 0..n : r * r = n
\* the square root of a rational q >= 0, where it is rational
HasRoot(q) == IsSquare(q[1]) /\ IsSquare(q[2])
Root(q) == <<ISqrt(q[1]), ISqrt(q[2])>>

\* lines 196-202 and 208-215: the three joints measured for finger i
AngleJoints ==
    << <<1, 2, 3>>, <<0, 6, 8>>, <<0, 10, 12>>, <<0, 14, 16>>, <<0, 18, 20>> >>

\* lines 218-228 for finger i. With n1, n2 the squared lengths of v1, v2:
\* the cosine is dot/sqrt(n1*n2), which numpy computes as 0.0/0.0 = nan
\* when a vector has no length; arccos is exact where the cosine is -1, 0
\* or 1, and nan stays nan through clip, arccos and the normalisation
finger_angle(hand, i) ==
    LET p1 == lm(hand, AngleJoints[i][1])
        p2 == lm(hand, AngleJoints[i][2])
        p3 == lm(hand, AngleJoints[i][3])
        v1 == PtSub(p1, p2)
        v2 == PtSub(p3, p2)
        dot == np_dot(v1, v2)
        norms_sq == RMul(np_dot(v1, v1), np_dot(v2, v2))
        cos_sq == RMul(RMul(dot, dot), <<norms_sq[2], norms_sq[1]>>)
        \* the angle in units of pi/2
        half_pis == IF dot = R(0) THEN 1
                    ELSE IF RGt(dot, R(0)) THEN 0 ELSE 2
    IN IF norms_sq = R(0) THEN NaN
       ELSE IF dot = R(0) \/ cos_sq = R(1) THEN Num(RSub(R(1), R(half_pis)))
       ELSE [kind |-> "inexact", val |-> cos_sq]

calculate_finger_angles(hand) ==
    <<finger_angle(hand, 1), finger_angle(hand, 2), finger_angle(hand, 3),
      finger_angle(hand, 4), finger_angle(hand, 5)>>

\* lines 235-238: the palm centre
palm_points == <<0, 5, 9, 13, 17>>
palm_center(hand) ==
    <<RDivInt(RAdd(RAdd(RAdd(RAdd(lm(hand, 0)[1], lm(hand, 5)[1]),
                             lm(hand, 9)[1]), lm(hand, 13)[1]),
                   lm(hand, 17)[1]), 5),
      RDivInt(RAdd(RAdd(RAdd(RAdd(lm(hand, 0)[2], lm(hand, 5)[2]),
                             lm(hand, 9)[2]), lm(hand, 13)[2]),
                   lm(hand, 17)[2]), 5)>>

fingertips == <<4, 8, 12, 16, 20>>
\* line 248, squared: the distance of a fingertip to the palm centre
tip_dist_sq(hand, i) ==
    LET d == PtSub(lm(hand, fingertips[i]), palm_center(hand))
    IN np_dot(d, d)

RMax(x, y) == IF RGt(y, x) THEN y ELSE x

\* lines 245-257 for finger i: max_dist is the largest of the five
\* distances; the division is skipped when it is 0 (line 253)
finger_distance(hand, i) ==
    LET max_sq == RMax(RMax(RMax(RMax(RMax(R(0), tip_dist_sq(hand, 1)),
                                      tip_dist_sq(hand, 2)),
                                 tip_dist_sq(hand, 3)),
                            tip_dist_sq(hand, 4)),
                       tip_dist_sq(hand, 5))
        ratio_sq == IF RGt(max_sq, R(0))
                    THEN RMul(tip_dist_sq(hand, i), <<max_sq[2], max_sq[1]>>)
                    ELSE tip_dist_sq(hand, i)
    IN IF HasRoot(ratio_sq) THEN Num(RSub(R(1), Root(ratio_sq)))
       ELSE [kind |-> "1-sqrt", val |-> ratio_sq]

calculate_finger_distances(hand) ==
    <<finger_distance(hand, 1), finger_distance(hand, 2),
      finger_distance(hand, 3), finger_distance(hand, 4),
      finger_distance(hand, 5)>>

\* the hands the tracker delivers here: the wrist at the origin and every
\* finger along its own direction, straight, bent at a right angle, with
\* its outer joints on one point, or wholly on the wrist; the thumb also
\* folded back on itself
Directions == << <<-2, 1>>, <<-1, 2>>, <<0, 2>>, <<1, 2>>, <<2, 1>> >>
Poses == {"straight", "bent", "collapsed", "at_wrist"}
ThumbPoses == {"straight", "folded", "bent", "collapsed", "at_wrist"}
Along(d, k) == <<R(k * d[1]), R(k * d[2])>>
Aside(d) == <<R(2 * d[1] - d[2]), R(2 * d[2] + d[1])>>
\* the four joints of a finger, from its base to its tip
JointsOf(d, pose) ==
    IF pose = "straight"
    THEN <<Along(d, 1), Along(d, 2), Along(d, 3), Along(d, 4)>>
    ELSE IF pose = "folded"
    THEN <<Along(d, 1), Along(d, 2), Along(d, 1), Along(d, 1)>>
    ELSE IF pose = "bent"
    THEN <<Along(d, 1), Along(d, 2), Aside(d), Aside(d)>>
    ELSE IF pose = "collapsed"
    THEN <<Along(d, 1), Along(d, 2), Along(d, 2), Along(d, 2)>>
    ELSE <<Along(d, 0), Along(d, 0), Along(d, 0), Along(d, 0)>>
HandOf(poses) ==
    << <<R(0), R(0)>> >>
       \o JointsOf(Directions[1], poses[1]) \o JointsOf(Directions[2], poses[2])
       \o JointsOf(Directions[3], poses[3]) \o JointsOf(Directions[4], poses[4])
       \o JointsOf(Directions[5], poses[5])

\* line 347: the tracker hands over the landmarks of a detected hand
track ==
    /\ phase = "serving"
    /\ landmark = <<>> \/ features # NoLocals
    /\ \E a \in ThumbPoses : \E b, c, d, e \in Poses :
          landmark' = HandOf(<<a, b, c, d, e>>)
    /\ features' = NoLocals
    /\ trace' = <<Ev("landmarks", <<>>)>>
    /\ UNCHANGED <<phase, disk, gestures, client, running, prev_gesture,
                   gesture_history, calibration_mode, recording_gesture,
                   recording_name, recording_frames, frame_count, fpc, hands,
                   restarts, server_socket, cpc, locals, observed>>

\* lines 358-359: the two descriptors of the hand
calculate_features ==
    /\ phase = "serving"
    /\ landmark # <<>>
    /\ features = NoLocals
    /\ features' = [at |-> "done",
                    angles |-> calculate_finger_angles(landmark),
                    distances |-> calculate_finger_distances(landmark)]
    /\ trace' = <<Ev("features", <<>>)>>
    /\ UNCHANGED <<phase, disk, gestures, client, running, prev_gesture,
                   gesture_history, calibration_mode, recording_gesture,
                   recording_name, recording_frames, frame_count, fpc, hands,
                   restarts, server_socket, cpc, locals, observed, landmark>>

----------------------------------------------------------------------------
(* The inputs and the specifications.                                      *)

\* the tracker reports at most max_num_hands hands per camera frame
HandLists == {<<>>, <<F_fist>>, <<F_five>>, <<F_fist, F_five>>}

Line(words) == words \o <<NL>>

\* Spec: one session of commands and frames on a fresh gestures directory
Commands ==
    { Line(<<"CALIBRATE", ":">>), Line(<<"STOP_CALIBRATE">>),
      Line(<<"RECORD", ":", "a">>), Line(<<"STOP_RECORD">>),
      Line(<<"LIST_GESTURES">>),
      Line(<<"DELETE_GESTURE", ":", "a">>) }

Init == InitOn({EmptyDisk})
Command == \E received \in Commands : read_from_client(received)
VideoFrame == cap_read(MaxFrames, HandLists)

Next ==
    \/ HandSignRecognizer_init
    \/ accept_client
    \/ Command
    \/ VideoFrame
    \/ process_hand
    \/ end_frame

Spec == Init /\ [][Next]_vars

----------------------------------------------------------------------------
(* The session's modes, read off the two flags.                            *)

Calibrating == calibration_mode
Recording == recording_gesture
Idle == ~calibration_mode /\ ~recording_gesture

STOP_RECORD == <<"STOP_RECORD">>
STOP_CALIBRATE == <<"STOP_CALIBRATE">>

\* positions of the entries of trace with a given op
At(op) == {i \in 1..Len(trace) : trace[i].op = op}
\* the messages the last step sent
Sent == {trace[i].arg : i \in At("send")}
SentKind(kind) == {m \in Sent : m[1] = kind}

\* the sum, over the frames of a buffer, of component i of one descriptor
RECURSIVE SumAngles(_, _, _)
SumAngles(frames, k, i) ==
    IF k = 0 THEN R(0) ELSE RAdd(SumAngles(frames, k - 1, i), frames[k].angles[i])
RECURSIVE SumDistances(_, _, _)
SumDistances(frames, k, i) ==
    IF k = 0 THEN R(0) ELSE RAdd(SumDistances(frames, k - 1, i), frames[k].distances[i])

\* t holds the arithmetic means of the buffered frames: n * t[i] = sum
IsMeanOf(t, frames) ==
    LET n == Len(frames)
    IN \A i \in Fingers :
         /\ RMul(R(n), t.angles[i]) = SumAngles(frames, n, i)
         /\ RMul(R(n), t.distances[i]) = SumDistances(frames, n, i)

\* the last step was a STOP_RECORD that found the recording buffer filled
\* (STOP_RECORD leaves recording_frames and recording_name as they were)
StopRecordSaved == Did("cmd", STOP_RECORD) /\ DidOp("put")

\* what C1 says of the store, the file and the order of the effects
C1_Saved ==
    /\ dict_has(gestures, recording_name)
    /\ IsMeanOf(dict_get(gestures, recording_name), recording_frames)
    /\ gesture_path(recording_name) \in DOMAIN disk
    /\ disk[gesture_path(recording_name)].kind = "pickle"
    /\ pickle_load(disk[gesture_path(recording_name)])
          = dict_get(gestures, recording_name)
    /\ Sent = {<<"GESTURE_SAVED", ":">> \o recording_name}
    /\ \A i \in At("send") : \A j \in At("put") \cup At("dump") : j < i

\* C1 as stated: a STOP_RECORD in Recording with n >= 1 buffered frames
\* stores and persists the elementwise means under the name, acknowledges
\* after both, and leaves the session Idle.
C1_Original == StopRecordSaved => (C1_Saved /\ Idle)

\* C1 (amended): a STOP_RECORD in Recording with n >= 1 buffered frames
\* stores and persists the elementwise means under the name, acknowledges
\* after both, and leaves the session not Recording; it is Idle exactly
\* when calibration is not active.
C1_MeanSavedThenNotRecording ==
    StopRecordSaved => (C1_Saved /\ ~Recording /\ (Idle <=> ~Calibrating))

\* a recording of two different frames has been saved
C1_Witness ==
    /\ StopRecordSaved
    /\ Len(recording_frames) = 2
    /\ recording_frames[1] # recording_frames[2]

\* C2: a step of the session writes a template and sends GESTURE_SAVED
\* exactly when it is a STOP_RECORD taken while Recording with a non-empty
\* buffer; any other STOP_RECORD changes neither store nor files and sends
\* nothing.
C2_SavedIffStopRecordWithFrames ==
    [][ LET isStop == trace'[1] = Ev("cmd", STOP_RECORD)
            wrote == \E i \in 1..Len(trace') : trace'[i].op \in {"put", "dump"}
            acked == \E i \in 1..Len(trace') :
                        /\ trace'[i].op = "send"
                        /\ trace'[i].arg[1] = "GESTURE_SAVED"
            due == isStop /\ Recording /\ recording_frames # <<>>
        IN /\ wrote <=> due
           /\ acked <=> due
           /\ (/\ trace'[1].op \in {"cmd", "hand", "frame", "shown"}
               /\ ~due
               /\ ~startswith(trace'[1].arg, <<"DELETE_GESTURE">>))
                 => (gestures' = gestures /\ disk' = disk)
           /\ (isStop /\ ~due)
                 => \A i \in 1..Len(trace') : trace'[i].op # "send"
      ]_vars

\* a second STOP_RECORD after a completed recording: the buffer still holds
\* the frames, nothing is written or sent
C2_Witness ==
    /\ trace = <<Ev("cmd", STOP_RECORD)>>
    /\ recording_frames # <<>>
    /\ dict_has(gestures, recording_name)

\* C4: processing a hand sends GESTURE:<label> exactly when the session is
\* Idle and the hand's label differs from the label displayed before; the
\* label sent is the hand's label.
C4_GestureOnlyIdleAndChanged ==
    [][ trace'[1].op = "hand" =>
          LET gestureMsgs == {trace'[i].arg : i \in
                                {j \in 1..Len(trace') :
                                    /\ trace'[j].op = "send"
                                    /\ trace'[j].arg[1] = "GESTURE"}}
          IN /\ gestureMsgs # {} <=> (Idle /\ prev_gesture' # prev_gesture)
             /\ gestureMsgs \subseteq {<<"GESTURE", ":">> \o prev_gesture'}
      ]_vars

\* a hand's label changed in Idle and was sent
C4_Witness ==
    /\ Did("hand", <<>>)
    /\ <<"GESTURE", ":", "five">> \in Sent
    /\ Idle

\* C7 as stated: the session is in exactly one of the three modes, and Idle
\* right after STOP_CALIBRATE and right after STOP_RECORD.
C7_Original ==
    /\ (Calibrating /\ ~Recording) \/ (Recording /\ ~Calibrating) \/ Idle
    /\ Did("cmd", STOP_CALIBRATE) => Idle
    /\ Did("cmd", STOP_RECORD) => Idle

\* C7 (amended): the session starts Idle; calibration and recording are two
\* flags that can be active together; right after STOP_CALIBRATE the
\* session is not Calibrating and right after STOP_RECORD it is not
\* Recording, and it is Idle then exactly when the other one is inactive.
C7_ModesAfterStop ==
    /\ phase \in {"boot", "constructed"} => Idle
    /\ Did("accept", <<>>) => Idle
    /\ Did("cmd", STOP_CALIBRATE) => (~Calibrating /\ (Idle <=> ~Recording))
    /\ Did("cmd", STOP_RECORD) => (~Recording /\ (Idle <=> ~Calibrating))

\* STOP_RECORD was dispatched while calibration was active too
C7_Witness == Did("cmd", STOP_RECORD) /\ Calibrating

----------------------------------------------------------------------------
(* SpecProto: what the command loop does with texts that are no command,   *)
(* with a blank line, with nothing (the peer closed), and with two         *)
(* commands arriving in one read.                                          *)

RECORD_a == <<"RECORD", ":", "a">>
LIST_GESTURES == <<"LIST_GESTURES">>

\* one read that holds two newline-terminated commands
TwoCommands ==
    { Line(RECORD_a) \o Line(STOP_RECORD),
      Line(STOP_RECORD) \o Line(LIST_GESTURES) }

CommandsProto ==
    { <<>>, <<NL>>, Line(<<"CALIBRATE">>), Line(<<"RECORD">>),
      Line(<<"HELLO">>), Line(<<BadByte>>),
      Line(<<"CALIBRATE", ":">>), Line(RECORD_a), Line(STOP_RECORD),
      Line(LIST_GESTURES) } \cup TwoCommands

CommandProto == \E received \in CommandsProto : read_from_client(received)
HandListsProto == {<<F_fist>>}
VideoFrameProto == cap_read(MaxFramesProto, HandListsProto)

NextProto ==
    \/ HandSignRecognizer_init
    \/ accept_client
    \/ CommandProto
    \/ VideoFrameProto
    \/ process_hand
    \/ end_frame

SpecProto == Init /\ [][NextProto]_vars

\* the commands of the control protocol
Recognized(data) ==
    \/ startswith(data, <<"CALIBRATE", ":">>)
    \/ startswith(data, <<"RECORD", ":">>)
    \/ startswith(data, <<"DELETE_GESTURE", ":">>)
    \/ data \in {STOP_RECORD, STOP_CALIBRATE, LIST_GESTURES, <<"GET_GESTURES">>}

\* the step read a text that is no command: an unknown or malformed one,
\* undecodable bytes, or a blank line (a read of nothing is the peer closing)
ReadNoCommand(tr) ==
    \/ tr[1].op = "cmd" /\ ~Recognized(tr[1].arg)
    \/ tr[1].op = "raised"
    \/ tr[1].op = "eof" /\ tr[1].arg # <<>>

\* C11 as stated: a text that is no command changes neither the modes, the
\* recording buffer, the store nor the files, sends nothing, and leaves the
\* command loop reading; the loop ends only when the peer has closed the
\* connection or the service is stopped.
C11_Original ==
    [][ /\ ReadNoCommand(trace') =>
             /\ UNCHANGED <<calibration_mode, recording_gesture, recording_name,
                            recording_frames, gestures, disk>>
             /\ Len(trace') = 1
             /\ cpc' = "recv"
        /\ (cpc = "recv" /\ cpc' = "done") =>
             (trace'[1] = Ev("eof", <<>>) \/ ~running')
      ]_vars

\* the texts of a read, one per line
RECURSIVE SplitLines(_, _)
SplitLines(text, line) ==
    IF text = <<>> THEN (IF line = <<>> THEN <<>> ELSE <<line>>)
    ELSE IF Head(text) = NL THEN <<line>> \o SplitLines(Tail(text), <<>>)
    ELSE SplitLines(Tail(text), Append(line, Head(text)))

\* the session after each text of a list was read and dispatched on its own,
\* with everything sent on the way
RECURSIVE DispatchEach(_, _, _)
DispatchEach(s, texts, effects) ==
    IF texts = <<>> THEN [s EXCEPT !.trace = effects]
    ELSE LET r == dispatch(s, Head(texts))
         IN DispatchEach(r, Tail(texts), effects \o Tail(r.trace))

\* C12 as stated: a read that holds several newline-terminated commands has
\* the effect of reading them one by one in their order: the same modes,
\* buffer, store and files afterwards and the same messages sent.
C12_Original ==
    [][ (trace'[1].op = "cmd" /\ Len(SplitLines(trace'[1].arg, <<>>)) > 1) =>
          \E r \in {DispatchEach(Session(calibration_mode, recording_gesture,
                                         recording_frames, recording_name,
                                         gestures, disk),
                                 SplitLines(trace'[1].arg, <<>>), <<>>)} :
             /\ calibration_mode' = r.calibration_mode
             /\ recording_gesture' = r.recording_gesture
             /\ recording_frames' = r.recording_frames
             /\ recording_name' = r.recording_name
             /\ gestures' = r.gestures
             /\ disk' = r.disk
             /\ Tail(trace') = r.trace
      ]_vars

----------------------------------------------------------------------------
(* SpecStore: the store and its files across commands and restarts of the  *)
(* process, from directories that may hold foreign or unreadable files.    *)

CommandsStore ==
    { Line(<<"RECORD", ":", "a", PKL>>), Line(<<"RECORD", ":", "ok">>),
      Line(<<"STOP_RECORD">>),
      Line(<<"DELETE_GESTURE", ":", "a">>), Line(<<"DELETE_GESTURE", ":", "ok">>),
      Line(<<"LIST_GESTURES">>), Line(<<"GET_GESTURES">>) }

InitStore == InitOn(InitDisks)
CommandStore == \E received \in CommandsStore : read_from_client(received)
HandListsStore == {<<F_fist>>}
VideoFrameStore == cap_read(MaxFramesStore, HandListsStore)

NextStore ==
    \/ HandSignRecognizer_init
    \/ accept_client
    \/ CommandStore
    \/ VideoFrameStore
    \/ process_hand
    \/ end_frame
    \/ Restart

SpecStore == InitStore /\ [][NextStore]_vars

\* the template files of the directory, and the name load_gestures gives
\* the record of each
TemplateFiles == {f \in DOMAIN disk : endswith_pkl(f)}
PersistedNames == {replace_pkl(f) : f \in TemplateFiles}
MemoryNames == {gestures[i].name : i \in 1..Len(gestures)}
\* the last step was a DELETE_GESTURE:<name> command
DeleteOf(name) == Did("cmd", <<"DELETE_GESTURE", ":">> \o name)
DeleteNames == {<<"a">>, <<"ok">>}

\* C3 as stated: DELETE_GESTURE of a stored name removes it from memory and
\* from persisted storage and sends DELETED:<name>; of an absent name it
\* does and sends nothing.
C3_Original ==
    \A name \in DeleteNames :
       DeleteOf(name) =>
          IF DidOp("del")
          THEN /\ name \notin MemoryNames
               /\ name \notin PersistedNames
               /\ Sent = {<<"DELETED", ":">> \o name}
          ELSE Len(trace) = 1

\* C9 as stated: once started, and after every command, memory and the
\* directory hold the same template names with the same vectors.
C9_Original ==
    phase \in {"constructed", "serving"} =>
       /\ MemoryNames = PersistedNames
       /\ \A name \in MemoryNames :
             /\ gesture_path(name) \in TemplateFiles
             /\ disk[gesture_path(name)] = pickle_dump(dict_get(gestures, name))

\* C10 as stated: startup never fails; an unreadable record is skipped and
\* every readable one is in memory when the object is constructed.
C10_Original ==
    Did("init", <<>>) =>
       /\ phase = "constructed"
       /\ \A f \in TemplateFiles :
             ~pickle_raises(disk[f]) => replace_pkl(f) \in MemoryNames

----------------------------------------------------------------------------
(* SpecLabels: an Idle session on the default templates, one hand per      *)
(* camera frame, the hands drawn from frames that classify to five         *)
(* different labels.                                                       *)

LabelFrames == {F_edge, F_five, F_tie, F_pointing, F_ok}
HandListsLabels == {<<f>> : f \in LabelFrames}
VideoFrameLabels == cap_read(MaxFramesLabels, HandListsLabels)

NextLabels ==
    \/ HandSignRecognizer_init
    \/ accept_client
    \/ VideoFrameLabels
    \/ process_hand
    \/ end_frame

SpecLabels == Init /\ [][NextLabels]_vars

\* the raw label of the hand the last step processed
RawOf(tr) == tr[CHOOSE i \in 1..Len(tr) : tr[i].op = "raw"].arg
\* hands processed so far, with one hand per camera frame
Processed == frame_count + (IF fpc = "hands" /\ hands = <<>> THEN 1 ELSE 0)
Occurrences(w, l) == Cardinality({i \in 1..Len(w) : w[i] = l})
PairwiseDistinct(w) == \A i, j \in 1..Len(w) : i # j => w[i] # w[j]
LastOf(w, n) == SubSeq(w, IF Len(w) > n THEN Len(w) - n + 1 ELSE 1, Len(w))

\* C5: in Idle, after the k-th label the window is the last min(k,5)
\* labels fed; the displayed label becomes the window's most common label
\* if that label occurs at least 3 times and stays as it was otherwise; a
\* window of 5 equal labels displays that label, a window of 5 pairwise
\* different labels leaves the displayed label as it was.
C5_WindowAndThreshold ==
    [][ (trace'[1].op = "hand" /\ Idle) =>
          LET raw == RawOf(trace')
              w == gesture_history'
              top == {l \in {w[i] : i \in 1..Len(w)} :
                         \A m \in {w[i] : i \in 1..Len(w)} :
                             Occurrences(w, m) <= Occurrences(w, l)}
          IN /\ w = LastOf(gesture_history \o <<raw>>, 5)
             /\ Len(w) = (IF Processed' < 5 THEN Processed' ELSE 5)
             /\ IF \E l \in top : Occurrences(w, l) >= 3
                THEN prev_gesture' \in top
                ELSE prev_gesture' = prev_gesture
             /\ (Len(w) = 5 /\ \A i \in 1..5 : w[i] = raw) => prev_gesture' = raw
             /\ (Len(w) = 5 /\ PairwiseDistinct(w)) => prev_gesture' = prev_gesture
      ]_vars

\* the window has slid past its first labels and a label reached the threshold
C5_Witness ==
    /\ Did("hand", <<>>)
    /\ Processed = 6
    /\ Len(gesture_history) = 5
    /\ Occurrences(gesture_history, prev_gesture) = 3
    /\ prev_gesture # UNKNOWN

\* the score of C6, 0.7*(1 - mean|da|) + 0.3*(1 - mean|dd|), written as
\* 1 - (7*sum|da| + 3*sum|dd|)/50
RECURSIVE SumAbsDiff(_, _, _)
SumAbsDiff(u, v, k) ==
    IF k = 0 THEN R(0) ELSE RAdd(SumAbsDiff(u, v, k - 1), RAbs(RSub(u[k], v[k])))
Score(hand, t) ==
    RSub(R(1),
         RDivInt(RAdd(RMul(R(7), SumAbsDiff(hand.angles, t.angles, 5)),
                      RMul(R(3), SumAbsDiff(hand.distances, t.distances, 5))), 50))
\* the scores of a hand against the templates of a store, in store order
RECURSIVE Scores(_, _, _)
Scores(hand, g, k) ==
    IF k = 0 THEN <<>> ELSE Append(Scores(hand, g, k - 1), Score(hand, g[k].data))
\* the label C6 prescribes, given those scores
Prescribed(sc, g) ==
    LET above == {i \in 1..Len(g) : RGt(sc[i], Tenths(6))}
        best == {i \in above : \A j \in above : RGe(sc[i], sc[j])}
    IN IF above = {} THEN UNKNOWN ELSE g[Min(best)].name

\* C6: in Idle the raw label of a hand is "unknown" when no template scores
\* strictly above 0.6 and otherwise the name of the first template, in
\* store order, among those with the highest score; so it is a function of
\* the hand's features and the store.
C6_ClassifyMaxFirst ==
    [][ (trace'[1].op = "hand" /\ Idle) =>
          \E sc \in {Scores(Head(hands), gestures, Len(gestures))} :
             RawOf(trace') = Prescribed(sc, gestures) ]_vars

\* the hand halfway between two templates was given the earlier one's name
C6_Witness ==
    /\ Did("hand", <<>>)
    /\ Did("raw", <<"victory">>)
    /\ Score(F_tie, dict_get(gestures, <<"victory">>))
          = Score(F_tie, dict_get(gestures, <<"pointing">>))
    /\ prev_gesture = <<"victory">>

----------------------------------------------------------------------------
(* SpecCap: frames before and during recordings that are started but not  *)
(* stopped, with enough camera frames to fill the buffer.                  *)

CommandsCap == {Line(<<"RECORD", ":", "a">>)}
CommandCap == \E received \in CommandsCap : read_from_client(received)
HandListsCap == {<<F_fist>>, <<F_fist, F_fist>>}
VideoFrameCap == cap_read(MaxFramesCap, HandListsCap)

NextCap ==
    \/ HandSignRecognizer_init
    \/ accept_client
    \/ CommandCap
    \/ VideoFrameCap
    \/ process_hand
    \/ end_frame

SpecCap == Init /\ [][NextCap]_vars

\* C8: the recording buffer never holds more than 30 frames; it changes
\* only by a RECORD:<name>, which empties it, or by a hand processed while
\* Recording on an even camera frame with fewer than 30 frames buffered,
\* which appends that hand's features.
C8_BufferCapped ==
    [][ /\ Len(recording_frames') <= 30
        /\ startswith(trace'[1].arg, <<"RECORD", ":">>) => recording_frames' = <<>>
        /\ recording_frames' # recording_frames =>
              \/ /\ startswith(trace'[1].arg, <<"RECORD", ":">>)
                 /\ recording_frames' = <<>>
              \/ /\ trace'[1].op = "hand"
                 /\ Recording
                 /\ frame_count % 2 = 0
                 /\ Len(recording_frames) < 30
                 /\ recording_frames' = Append(recording_frames, Head(hands))
      ]_vars

\* a hand seen while Recording on an even frame found the buffer full
C8_Witness ==
    /\ Did("hand", <<>>)
    /\ ~DidOp("append")
    /\ Recording
    /\ frame_count % 2 = 0
    /\ Len(recording_frames) = 30

----------------------------------------------------------------------------
(* Hands processed outside Idle (Spec).                                    *)

\* C14: a hand processed while Calibrating or Recording is not classified
\* and not smoothed: its label is "calibrating", which becomes the
\* displayed label, and the smoothing window and the template store are
\* left as they were.
C14_BusyBypasses ==
    [][ (trace'[1].op = "hand" /\ ~Idle) =>
          /\ RawOf(trace') = CALIBRATING
          /\ prev_gesture' = CALIBRATING
          /\ \A i \in 1..Len(trace') : trace'[i].op # "smooth"
          /\ gesture_history' = gesture_history
          /\ gestures' = gestures
      ]_vars

\* a hand that matches a template was processed while Recording only, with
\* labels from before in the window
C14_Witness ==
    /\ Did("hand", <<>>)
    /\ Recording /\ ~Calibrating
    /\ Did("raw", CALIBRATING)
    /\ gesture_history = <<<<"five">>>>
    /\ recording_frames # <<>>
    /\ recording_frames[Len(recording_frames)] = F_five

----------------------------------------------------------------------------
(* Ties in the smoothing window (SpecLabels).                              *)

\* the labels of a window and those that occur most often in it
LabelsOf(w) == {w[i] : i \in 1..Len(w)}
TopOf(w) == {l \in LabelsOf(w) :
                \A m \in LabelsOf(w) : Occurrences(w, m) <= Occurrences(w, l)}

\* C19: whichever of the most common labels of the window is picked, the
\* smoother returns the same label; when two or more labels tie for the
\* highest count that count is below 3 and the displayed label stays; at
\* most one label of a window occurs 3 times or more.
C19_TieBreakIrrelevant ==
    [][ (trace'[1].op = "hand" /\ Idle) =>
          LET w == gesture_history'
          IN /\ Len(w) <= 5
             /\ \A pick \in TopOf(w) :
                   prev_gesture' = (IF Occurrences(w, pick) >= 3
                                    THEN pick ELSE prev_gesture)
             /\ Cardinality(TopOf(w)) >= 2 =>
                   /\ \A l \in TopOf(w) : Occurrences(w, l) < 3
                   /\ prev_gesture' = prev_gesture
             /\ Cardinality({l \in LabelsOf(w) : Occurrences(w, l) >= 3}) <= 1
      ]_vars

\* a full window in which two labels occur twice each, neither of them the
\* label displayed
C19_Witness ==
    /\ Did("hand", <<>>)
    /\ Len(gesture_history) = 5
    /\ Cardinality(TopOf(gesture_history)) = 2
    /\ \A l \in TopOf(gesture_history) :
          Occurrences(gesture_history, l) = 2 /\ l # prev_gesture

----------------------------------------------------------------------------
(* SpecSent: the GESTURE messages the controller receives, over frames of  *)
(* one or two hands and periods of calibration and recording.              *)

CommandsSent ==
    { Line(<<"CALIBRATE", ":">>), Line(STOP_CALIBRATE),
      Line(RECORD_a), Line(STOP_RECORD) }
CommandSent == \E received \in CommandsSent : read_from_client(received)
HandListsSent ==
    {<<F_five>>, <<F_five, F_five>>, <<F_pointing, F_pointing>>}
VideoFrameSent == cap_read(MaxFramesSent, HandListsSent)

NextSent ==
    \/ HandSignRecognizer_init
    \/ accept_client
    \/ CommandSent
    \/ VideoFrameSent
    \/ process_hand_observed
    \/ end_frame

SpecSent == Init /\ [][NextSent]_vars

\* C20 as stated: two consecutive GESTURE messages never carry the same
\* label, whatever happened between them.
C20_Original ==
    Len(sent_labels) = 2 => sent_labels[1] # sent_labels[2]

\* C20 (amended): two consecutive GESTURE messages carry different labels
\* unless a hand was processed while Calibrating or Recording between them.
C20_DistinctUnlessBusyBetween ==
    (Len(sent_labels) = 2 /\ ~busy_seen.between)
        => sent_labels[1] # sent_labels[2]

\* a second GESTURE message was just sent, after an Idle stretch in which
\* hands were processed, and carries another label than the first
C20_Witness ==
    /\ Did("hand", <<>>)
    /\ SentKind("GESTURE") # {}
    /\ sent_labels = << <<"five">>, <<"pointing">> >>
    /\ ~busy_seen.between

----------------------------------------------------------------------------
(* SpecLandmarks: the feature extractor on hands whose fingers are         *)
(* straight, folded, bent at a right angle, or without length.             *)
(* Each hand is tracked and then measured, as in the frame loop.           *)

NextLandmarks ==
    \/ HandSignRecognizer_init
    \/ accept_client
    \/ track
    \/ calculate_features

SpecLandmarks == Init /\ [][NextLandmarks]_vars

\* a vector of finger i's joint triplet has no length
ZeroLengthJoint(hand, i) ==
    \/ lm(hand, AngleJoints[i][1]) = lm(hand, AngleJoints[i][2])
    \/ lm(hand, AngleJoints[i][3]) = lm(hand, AngleJoints[i][2])
\* every fingertip lies on the palm centre
AllTipsOnPalm(hand) ==
    \A i \in Fingers : lm(hand, fingertips[i]) = palm_center(hand)

\* C15 as stated: a finger whose joint triplet has a vector of no length
\* gets an angle that is a defined number, and a hand whose five
\* fingertip distances are all zero gets every distance equal to 1.
C15_Original ==
    features.at = "done" =>
       /\ \A i \in Fingers :
             ZeroLengthJoint(landmark, i) => features.angles[i].kind = "num"
       /\ AllTipsOnPalm(landmark) =>
             \A i \in Fingers : features.distances[i] = Num(R(1))

----------------------------------------------------------------------------
(* SpecRace: the command loop and the frame loop interleaved statement by  *)
(* statement, on one frame that shows two hands.                           *)

MaxFramesRace == 1

DELETE_ok == Line(<<"DELETE_GESTURE", ":", "ok">>)
CommandsRace ==
    {Line(<<"CALIBRATE", ":">>), Line(<<"STOP_CALIBRATE">>), RECORD_a,
     DELETE_ok}
StopRecordRace == {Line(<<"STOP_RECORD">>)}
HandListsRace == {<<F_fist, F_fist>>}

CommandRace == \E received \in CommandsRace : command_step(received)
StopRecordRaceStep == \E received \in StopRecordRace : stop_record_enter(received)
VideoFrameRace == cap_read(MaxFramesRace, HandListsRace)

NextRace ==
    \/ HandSignRecognizer_init
    \/ accept_client
    \/ CommandRace
    \/ StopRecordRaceStep
    \/ stop_record_sum
    \/ stop_record_avg_angles
    \/ stop_record_avg_distances
    \/ stop_record_store
    \/ stop_record_clear
    \/ recv_closed
    \/ VideoFrameRace
    \/ hand_buffer
    \/ recognize_enter
    \/ scan_next
    \/ smooth_step
    \/ announce_step
    \/ end_frame

SpecRace == Init /\ [][NextRace]_vars

\* the sum, over the frames of a buffer at the positions in S, of
\* component i of the two descriptors
RECURSIVE SumAnglesOver(_, _, _, _)
SumAnglesOver(frames, S, k, i) ==
    IF k = 0 THEN R(0)
    ELSE RAdd(SumAnglesOver(frames, S, k - 1, i),
              IF k \in S THEN frames[k].angles[i] ELSE R(0))
RECURSIVE SumDistancesOver(_, _, _, _)
SumDistancesOver(frames, S, k, i) ==
    IF k = 0 THEN R(0)
    ELSE RAdd(SumDistancesOver(frames, S, k - 1, i),
              IF k \in S THEN frames[k].distances[i] ELSE R(0))

\* t is the sum of the frames at the positions in S divided by their number
IsMeanOver(t, frames, S) ==
    \A i \in Fingers :
       /\ RMul(R(Cardinality(S)), t.angles[i])
             = SumAnglesOver(frames, S, Len(frames), i)
       /\ RMul(R(Cardinality(S)), t.distances[i])
             = SumDistancesOver(frames, S, Len(frames), i)

\* C16 as stated: however STOP_RECORD interleaves with the frame loop's
\* appends, the template it stores is the sum of some set of buffered
\* frames divided by the number of frames in that set.
C16_Original ==
    (DidOp("put") /\ cpc = "clear") =>
       \E S \in SUBSET (1..Len(recording_frames)) :
          /\ S # {}
          /\ IsMeanOver(dict_get(gestures, recording_name), recording_frames, S)

\* C17 as stated: with no template named "calibrating", GESTURE:calibrating
\* is never sent and "calibrating" never enters the smoothing history,
\* however the mode commands interleave with the frame loop's mode checks.
C17_Original ==
    /\ ~Did("send", <<"GESTURE", ":">> \o CALIBRATING)
    /\ \A i \in 1..Len(gesture_history) : gesture_history[i] # CALIBRATING

\* C18 as stated: a store mutation by the command loop during the frame
\* loop's iteration over the templates never puts the frame loop into an
\* error state or ends it.
C18_Original == fpc # "raised"

----------------------------------------------------------------------------
(* SpecShutdown: a session that the controller may leave and the operator  *)
(* may stop, with the frame loop going round for as long as the code lets  *)
(* it. The threads of the service keep running (weak fairness); nothing    *)
(* obliges the controller to send, the operator to stop or press ESC, or   *)
(* the camera to fail.                                                     *)

PeerClosed == <<>>
CommandsShutdown ==
    {PeerClosed, Line(<<"CALIBRATE", ":">>), Line(<<"STOP_CALIBRATE">>),
     Line(RECORD_a), Line(<<"STOP_RECORD">>)}
\* the camera sees no hand
HandListsShutdown == {<<>>}

CommandShutdown == \E received \in CommandsShutdown : read_from_client(received)
VideoFrameShutdown == cap_read(FrameCountPeriod, HandListsShutdown)

FrameLoopShutdown ==
    \/ VideoFrameShutdown
    \/ end_frame_running
    \/ while_running_fails
    \/ process_video_returns

NextShutdown ==
    \/ HandSignRecognizer_init
    \/ accept_client
    \/ CommandShutdown
    \/ recv_closed
    \/ FrameLoopShutdown
    \/ cap_read_fails
    \/ esc_pressed
    \/ stop

SpecShutdown ==
    /\ Init
    /\ [][NextShutdown]_vars
    /\ WF_vars(FrameLoopShutdown)
    /\ WF_vars(recv_closed)

\* both loops are over and both sockets closed
AllDown ==
    /\ cpc = "done"
    /\ fpc = "done"
    /\ client = "closed"
    /\ server_socket = "closed"

\* C13 as stated: once the peer has closed the connection or stop() has
\* been called, the command loop and the frame loop eventually end and the
\* connection and the listening socket are eventually closed.
C13_Original == (client # "none" /\ (DidOp("eof") \/ DidOp("stop"))) ~> AllDown

=============================================================================
